---- MODULE Spec2Model ----
(***************************************************************************)
(* Model of the market stress engine (src/src/market_stress_engine.py) and *)
(* of the previous-session date computation shared with                    *)
(* src/src/dashboard_app.py.                                               *)
(*                                                                         *)
(* Numbers.  Scores are integers in hundredths of a point (50.0 = 5000).   *)
(* Weights are integers in hundredths (0.23 = 23).  A composite is an      *)
(* exact fraction [num, den] in lowest terms, in hundredths of a point.    *)
(* Returns are in basis points, rolling volatilities in hundredths of a    *)
(* percentage point; divisions and square roots truncate at that           *)
(* resolution.  The Gaussian CDF is tabulated every half unit of z and     *)
(* interpolated linearly.  Dates are day ordinals, ordinal 0 is a Monday.  *)
(***************************************************************************)
EXTENDS Integers, Sequences, FiniteSets, TLC

----------------------------------------------------------------------------
(* Bounds of the model *)

MaxLen == 22
PipeCalls == 2
CacheCalls == 6
NumDM == 5
MaxDay == 70

----------------------------------------------------------------------------
(* Configuration: TICKERS and WEIGHTS *)

NumTickers == 8

TICKERS == <<"EURUSD=X", "GC=F", "CL=F", "DX-Y.NYB", "^BCOM", "^SPGSCI", "^VIX", "^GVZ">>

WEIGHTS == <<7, 10, 10, 5, 10, 10, 23, 25>>

VIX == 7

TickerIdx == 1..NumTickers

----------------------------------------------------------------------------
(* Arithmetic helpers *)

Abs(x) == IF x < 0 THEN 0 - x ELSE x

Min2(a, b) == IF b < a THEN b ELSE a

Max2(a, b) == IF b > a THEN b ELSE a

RECURSIVE Gcd(_, _)
Gcd(a, b) == IF b = 0 THEN a ELSE Gcd(b, a % b)

RECURSIVE SumTo(_, _)
SumTo(s, i) == IF i = 0 THEN 0 ELSE s[i] + SumTo(s, i - 1)

SeqSum(s) == SumTo(s, Len(s))

SeqMin(s) == CHOOSE x \in {s[i] : i \in 1..Len(s)} : \A i \in 1..Len(s) : x <= s[i]

SeqMax(s) == CHOOSE x \in {s[i] : i \in 1..Len(s)} : \A i \in 1..Len(s) : x >= s[i]

RECURSIVE IsqrtIter(_, _, _)
IsqrtIter(n, lo, hi) ==
    IF lo >= hi THEN lo
    ELSE LET mid == (lo + hi + 1) \div 2
         IN  IF mid * mid <= n THEN IsqrtIter(n, mid, hi)
                               ELSE IsqrtIter(n, lo, mid - 1)

Isqrt(n) == IsqrtIter(n, 0, Min2(n, 46340))

----------------------------------------------------------------------------
(* Data frames.  A frame has a row count, a set of column names and the    *)
(* contents of the two columns the engine touches.                         *)

NaN == -999999

NeutralScore == 5000

RollWindow == 10

MinObs == 10

MinHistory == 10

EmptyFrame == [rows |-> 0, cols |-> {}, Close |-> <<>>, returns |-> <<>>]

Frame(close) ==
    [rows |-> Len(close), cols |-> {"Close"}, Close |-> close, returns |-> <<>>]

NoCloseFrame(n) ==
    [rows |-> n, cols |-> {"Open"}, Close |-> <<>>, returns |-> <<>>]

IsEmpty(df) == df.rows = 0 \/ df.cols = {}

Patterns == {"flat", "zigzag", "calm_then_spike", "spike_then_calm"}

ClosePrice(n, p, i) ==
    CASE p = "flat" -> 100
      [] p = "zigzag" -> 100 + (i % 2)
      [] p = "calm_then_spike" ->
            IF i > n - 3 THEN 100 + 5 * (i % 2) ELSE 100 + (i % 2)
      [] p = "spike_then_calm" ->
            IF i <= 12 THEN 100 + 5 * (i % 2) ELSE 100 + (i % 2)

CloseSeries(n, p) == [i \in 1..n |-> ClosePrice(n, p, i)]

----------------------------------------------------------------------------
(* VolatilityIndicator.calculate and Indicator.scale_with_history *)

PctChangeFirstZero(close) ==
    [i \in 1..Len(close) |->
        IF i = 1 THEN 0
        ELSE ((close[i] - close[i-1]) * 10000) \div close[i-1]]

PctChange(close) ==
    [i \in 1..Len(close) |->
        IF i = 1 THEN NaN
        ELSE ((close[i] - close[i-1]) * 10000) \div close[i-1]]

WindowOf(s, i) == SubSeq(s, Max2(1, i - RollWindow + 1), i)

WindowDefined(w) == Len(w) = RollWindow /\ \A j \in 1..Len(w) : w[j] # NaN

SampleStd(w) ==
    LET s1 == SeqSum(w)
        s2 == SeqSum([j \in 1..Len(w) |-> w[j] * w[j]])
    IN  Isqrt((Len(w) * s2 - s1 * s1) \div (Len(w) * (Len(w) - 1)))

RollingStd(s) ==
    [i \in 1..Len(s) |->
        LET w == WindowOf(s, i)
        IN  IF WindowDefined(w) THEN SampleStd(w) ELSE NaN]

IsDefined(x) == x # NaN

DropNa(s) == SelectSeq(s, IsDefined)

PhiTable == <<5000, 6915, 8413, 9332, 9772, 9938, 9987, 9998, 10000>>

PhiStep == 500

PhiUpper(az) ==
    IF az >= PhiStep * (Len(PhiTable) - 1) THEN PhiTable[Len(PhiTable)]
    ELSE LET k == az \div PhiStep
             f == az % PhiStep
         IN  PhiTable[k+1] + ((PhiTable[k+2] - PhiTable[k+1]) * f) \div PhiStep

GaussianCdf(z) == IF z >= 0 THEN PhiUpper(z) ELSE 10000 - PhiUpper(0 - z)

Clamp(x) == Max2(0, Min2(10000, x))

ScaleWithHistory(values, current) ==
    IF Len(values) < MinHistory THEN NeutralScore
    ELSE LET k  == Len(values)
             s1 == SeqSum(values)
             s2 == SeqSum([j \in 1..k |-> values[j] * values[j]])
             d  == k * s2 - s1 * s1
             ks == Isqrt(d)
         IN  IF d = 0 THEN NeutralScore
             ELSE LET n == (k * current - s1) * 1000
                      z == IF n >= 0 THEN n \div ks ELSE 0 - ((0 - n) \div ks)
                  IN  IF current = NaN THEN 10000 ELSE Clamp(GaussianCdf(z))

CalculateResult(raised, score, df, hist) ==
    [raised |-> raised, score |-> score, df |-> df, hist |-> hist]

CalculateZeroOnShort(df) ==
    IF IsEmpty(df) \/ df.rows < MinObs
    THEN CalculateResult(FALSE, 0, df, <<>>)
    ELSE IF "Close" \notin df.cols
    THEN CalculateResult(TRUE, 0, df, <<>>)
    ELSE LET df2        == [df EXCEPT !.cols = @ \cup {"returns"},
                                      !.returns = PctChange(df.Close)]
             volatility == RollingStd(df2.returns)
             vol_series == DropNa(volatility)
             current    == volatility[Len(volatility)]
         IN  CalculateResult(FALSE, ScaleWithHistory(vol_series, current),
                             df2, vol_series)

CalculateNoLengthGuard(df) ==
    IF IsEmpty(df)
    THEN CalculateResult(FALSE, NeutralScore, df, <<>>)
    ELSE IF "Close" \notin df.cols
    THEN CalculateResult(TRUE, 0, df, <<>>)
    ELSE LET df2        == [df EXCEPT !.cols = @ \cup {"returns"},
                                      !.returns = PctChange(df.Close)]
             volatility == RollingStd(df2.returns)
             vol_series == DropNa(volatility)
             current    == volatility[Len(volatility)]
         IN  CalculateResult(FALSE, ScaleWithHistory(vol_series, current),
                             df2, vol_series)

CalculateDropInPlace(df) ==
    IF IsEmpty(df) \/ df.rows < MinObs
    THEN CalculateResult(FALSE, NeutralScore, df, <<>>)
    ELSE IF "Close" \notin df.cols
    THEN CalculateResult(TRUE, 0, df, <<>>)
    ELSE LET df2        == [df EXCEPT !.cols = @ \cup {"returns"},
                                      !.returns = PctChange(df.Close)]
             volatility == RollingStd(df2.returns)
             vol_series == DropNa(volatility)
             current    == volatility[Len(volatility)]
             dropped    == [df2 EXCEPT !.rows = @ - 1,
                                       !.Close = Tail(@),
                                       !.returns = Tail(@)]
         IN  CalculateResult(FALSE, ScaleWithHistory(vol_series, current),
                             dropped, vol_series)

Calculate(df) ==
    IF IsEmpty(df) \/ df.rows < MinObs
    THEN CalculateResult(FALSE, NeutralScore, df, <<>>)
    ELSE IF "Close" \notin df.cols
    THEN CalculateResult(TRUE, 0, df, <<>>)
    ELSE LET df2        == [df EXCEPT !.cols = @ \cup {"returns"},
                                      !.returns = PctChange(df.Close)]
             volatility == RollingStd(df2.returns)
             vol_series == DropNa(volatility)
             current    == volatility[Len(volatility)]
         IN  CalculateResult(FALSE, ScaleWithHistory(vol_series, current),
                             df2, vol_series)

----------------------------------------------------------------------------
(* CompositeStress.compute: aggregation of the score vector *)

Frac(n, d) ==
    LET g == Gcd(Abs(n), d) IN [num |-> n \div g, den |-> d \div g]

WeightedSum(values, weights) ==
    SeqSum([i \in 1..Len(values) |-> values[i] * weights[i]])

AggregateUnweighted(values, weights) ==
    LET num == SeqSum(values)
        den == Len(values)
    IN  IF num < 0 THEN Frac(0, 1)
        ELSE IF num > 10000 * den THEN Frac(10000, 1)
        ELSE Frac(num, den)

AggregateNoClamp(values, weights) ==
    LET wsum == SeqSum(weights)
        num  == IF wsum > 0 THEN WeightedSum(values, weights) ELSE SeqSum(values)
        den  == IF wsum > 0 THEN wsum ELSE Len(values)
    IN  Frac(num, den)

Aggregate(values, weights) ==
    LET wsum == SeqSum(weights)
        num  == IF wsum > 0 THEN WeightedSum(values, weights) ELSE SeqSum(values)
        den  == IF wsum > 0 THEN wsum ELSE Len(values)
    IN  IF num < 0 THEN Frac(0, 1)
        ELSE IF num > 10000 * den THEN Frac(10000, 1)
        ELSE Frac(num, den)

Result(values, weights) ==
    [composite |-> Aggregate(values, weights), values |-> values]

NoResult == [composite |-> Frac(0, 1), values |-> <<>>]

----------------------------------------------------------------------------
(* State *)

DMs == 1..NumDM

Keys == DMs \X TickerIdx

LruMaxSize == 32

VARIABLES
    provider,     \* what the transport answers for (instance, ticker)
    active,       \* DataManager instances, numbered in order of first use
    budget,       \* compute calls still to be made
    cache,        \* lru_cache of get_history, least recently used first
    fetches,      \* transport invocations per (instance, ticker)
    calls,        \* compute calls made per instance
    first,        \* result of the first compute call per instance
    last,         \* result of the latest compute call per instance
    ind_values,   \* values returned by the indicators of one compute call
    cfg_weights,  \* weight table used by that call
    agg_out,      \* its result
    df,           \* frame handed to one VolatilityIndicator
    out,          \* outcome of its calculate
    end_date,     \* reference end date
    cmp           \* comparison range of the previous session

vars == <<provider, active, budget, cache, fetches, calls, first, last,
          ind_values, cfg_weights, agg_out, df, out, end_date, cmp>>

pipeVars == <<provider, active, budget, cache, fetches, calls, first, last>>

aggVars == <<ind_values, cfg_weights, agg_out>>

scoreVars == <<df, out>>

dateVars == <<end_date, cmp>>

----------------------------------------------------------------------------
(* DataManager.get_history behind lru_cache(maxsize=32) *)

TransportOk(frame) == [err |-> FALSE, df |-> frame]

TransportError == [err |-> TRUE, df |-> EmptyFrame]

CacheIndex(c, d, t) ==
    IF \E i \in 1..Len(c) : c[i].dm = d /\ c[i].tk = t
    THEN CHOOSE i \in 1..Len(c) : c[i].dm = d /\ c[i].tk = t
    ELSE 0

RemoveAt(c, i) == SubSeq(c, 1, i - 1) \o SubSeq(c, i + 1, Len(c))

Evict(c) == IF Len(c) > LruMaxSize THEN Tail(c) ELSE c

Fetch(d, t) ==
    IF provider[<<d, t>>].err THEN EmptyFrame ELSE provider[<<d, t>>].df

GetHistoryNoMemo(c, f, d, t) ==
    LET i       == CacheIndex(c, d, t)
        rest    == IF i > 0 THEN RemoveAt(c, i) ELSE c
        fetched == Fetch(d, t)
    IN  [cache   |-> Evict(Append(rest, [dm |-> d, tk |-> t, df |-> fetched])),
         fetches |-> [f EXCEPT ![<<d, t>>] = @ + 1],
         df      |-> fetched]

GetHistory(c, f, d, t) ==
    LET i == CacheIndex(c, d, t)
    IN  IF i > 0
        THEN [cache |-> Append(RemoveAt(c, i), c[i]), fetches |-> f, df |-> c[i].df]
        ELSE LET fetched == Fetch(d, t)
             IN  [cache   |-> Evict(Append(c, [dm |-> d, tk |-> t, df |-> fetched])),
                  fetches |-> [f EXCEPT ![<<d, t>>] = @ + 1],
                  df      |-> fetched]

----------------------------------------------------------------------------
(* CompositeStress.compute *)

ScoreOneSkipRaised(st, d, t) ==
    LET g == GetHistory(st.cache, st.fetches, d, t)
        r == Calculate(g.df)
    IN  [cache   |-> [g.cache EXCEPT ![Len(g.cache)].df = r.df],
         fetches |-> g.fetches,
         values  |-> IF r.raised THEN st.values ELSE Append(st.values, r.score)]

ScoreOne(st, d, t) ==
    LET g == GetHistory(st.cache, st.fetches, d, t)
        r == Calculate(g.df)
    IN  [cache   |-> [g.cache EXCEPT ![Len(g.cache)].df = r.df],
         fetches |-> g.fetches,
         values  |-> Append(st.values, IF r.raised THEN NeutralScore ELSE r.score)]

RECURSIVE ComputeLoop(_, _, _)
ComputeLoop(st, d, t) ==
    IF t > NumTickers THEN st ELSE ComputeLoop(ScoreOne(st, d, t), d, t + 1)

Compute(d) ==
    /\ d \in active
    /\ budget > 0
    /\ \A e \in active : e < d => calls[e] > 0
    /\ LET st == ComputeLoop([cache |-> cache, fetches |-> fetches, values |-> <<>>], d, 1)
           r  == Result(st.values, WEIGHTS)
       IN  /\ cache' = st.cache
           /\ fetches' = st.fetches
           /\ last' = [last EXCEPT ![d] = r]
           /\ first' = IF calls[d] = 0 THEN [first EXCEPT ![d] = r] ELSE first
    /\ calls' = [calls EXCEPT ![d] = @ + 1]
    /\ budget' = budget - 1
    /\ UNCHANGED <<provider, active, aggVars, scoreVars, dateVars>>

----------------------------------------------------------------------------
(* compute over arbitrary indicator values and weight tables *)

ZeroWeights == <<0, 0, 0, 0, 0, 0, 0, 0>>

SparseWeights == <<1, 0, 0, 3, 0, 0, 2, 0>>

WeightTables == {WEIGHTS, ZeroWeights, SparseWeights}

ScoreRange == {0, 5000, 9000, 10000}

AdversarialScores == {-2000, 5000, 9000, 15000}

ComputeWith ==
    /\ ~agg_out.done
    /\ agg_out' = [done |-> TRUE, composite |-> Aggregate(ind_values, cfg_weights)]
    /\ UNCHANGED <<ind_values, cfg_weights, pipeVars, scoreVars, dateVars>>

----------------------------------------------------------------------------
(* one VolatilityIndicator.calculate call *)

ScoreFrame ==
    /\ ~out.done
    /\ LET r == Calculate(df)
       IN  /\ out' = [done |-> TRUE, res |-> r]
           /\ df' = r.df
    /\ UNCHANGED <<pipeVars, aggVars, dateVars>>

----------------------------------------------------------------------------
(* previous session: pd.bdate_range(end=end_date, periods=2)[-2] *)

Lookback == 1095

Weekday(day) == day % 7

IsBusinessDay(day) == Weekday(day) < 5

RollBack(day) ==
    IF Weekday(day) = 5 THEN day - 1
    ELSE IF Weekday(day) = 6 THEN day - 2
    ELSE day

MinusOneBDay(day) == IF Weekday(day) = 0 THEN day - 3 ELSE day - 1

BDateRange2(end) == <<MinusOneBDay(RollBack(end)), RollBack(end)>>

LastBusinessDay(end) == BDateRange2(end)[1]

CompareToPrevious ==
    /\ ~cmp.done
    /\ cmp' = [done |-> TRUE,
               start |-> LastBusinessDay(end_date) - Lookback,
               end |-> LastBusinessDay(end_date)]
    /\ UNCHANGED <<end_date, pipeVars, aggVars, scoreVars>>

----------------------------------------------------------------------------
(* Initial states and specifications *)

PipeIdle ==
    /\ provider = [k \in Keys |-> TransportError]
    /\ active = {}
    /\ budget = 0
    /\ cache = <<>>
    /\ fetches = [k \in Keys |-> 0]
    /\ calls = [d \in DMs |-> 0]
    /\ first = [d \in DMs |-> NoResult]
    /\ last = [d \in DMs |-> NoResult]

AggIdle ==
    /\ ind_values = <<>>
    /\ cfg_weights = WEIGHTS
    /\ agg_out = [done |-> TRUE, composite |-> Frac(0, 1)]

ScoreIdle ==
    /\ df = EmptyFrame
    /\ out = [done |-> TRUE, res |-> CalculateResult(FALSE, NeutralScore, EmptyFrame, <<>>)]

DateIdle ==
    /\ end_date = 0
    /\ cmp = [done |-> TRUE, start |-> 0, end |-> 0]

LongFrame == Frame(CloseSeries(2 * RollWindow, "calm_then_spike"))

PipeOutcomes ==
    {TransportError, TransportOk(EmptyFrame), TransportOk(NoCloseFrame(12)),
     TransportOk(LongFrame)}

FailingOutcomes == {TransportError, TransportOk(EmptyFrame)}

ScoringOutcomes == {TransportError, TransportOk(NoCloseFrame(12)), TransportOk(LongFrame)}

InitPipe ==
    /\ \E o \in [TickerIdx -> FailingOutcomes] \cup [TickerIdx -> ScoringOutcomes] :
          provider = [k \in Keys |-> IF k[1] = 1 THEN o[k[2]] ELSE TransportError]
    /\ active = {1}
    /\ budget = PipeCalls
    /\ cache = <<>>
    /\ fetches = [k \in Keys |-> 0]
    /\ calls = [d \in DMs |-> 0]
    /\ first = [d \in DMs |-> NoResult]
    /\ last = [d \in DMs |-> NoResult]
    /\ AggIdle /\ ScoreIdle /\ DateIdle

CacheOutcomes == {TransportError, TransportOk(Frame(CloseSeries(12, "zigzag")))}

InitCache ==
    /\ \E o \in CacheOutcomes : provider = [k \in Keys |-> o]
    /\ active = DMs
    /\ budget = CacheCalls
    /\ cache = <<>>
    /\ fetches = [k \in Keys |-> 0]
    /\ calls = [d \in DMs |-> 0]
    /\ first = [d \in DMs |-> NoResult]
    /\ last = [d \in DMs |-> NoResult]
    /\ AggIdle /\ ScoreIdle /\ DateIdle

InitAgg ==
    /\ ind_values \in [TickerIdx -> ScoreRange]
    /\ cfg_weights \in WeightTables
    /\ agg_out = [done |-> FALSE, composite |-> Frac(0, 1)]
    /\ PipeIdle /\ ScoreIdle /\ DateIdle

InitAdv ==
    /\ ind_values \in [TickerIdx -> AdversarialScores]
    /\ cfg_weights \in WeightTables
    /\ agg_out = [done |-> FALSE, composite |-> Frac(0, 1)]
    /\ PipeIdle /\ ScoreIdle /\ DateIdle

ScoreFrames ==
    {Frame(CloseSeries(n, p)) : n \in 0..MaxLen, p \in Patterns}
        \cup {NoCloseFrame(n) : n \in 0..MaxLen} \cup {EmptyFrame}

InitScore ==
    /\ df \in ScoreFrames
    /\ out = [done |-> FALSE, res |-> CalculateResult(FALSE, NeutralScore, EmptyFrame, <<>>)]
    /\ PipeIdle /\ AggIdle /\ DateIdle

InitDate ==
    /\ end_date \in 7..MaxDay
    /\ cmp = [done |-> FALSE, start |-> 0, end |-> 0]
    /\ PipeIdle /\ AggIdle /\ ScoreIdle

Next == \E d \in DMs : Compute(d)

Spec == InitPipe /\ [][Next]_vars

SpecCache == InitCache /\ [][Next]_vars

SpecAgg == InitAgg /\ [][ComputeWith]_vars

SpecAdv == InitAdv /\ [][ComputeWith]_vars

SpecScore == InitScore /\ [][ScoreFrame]_vars

SpecDate == InitDate /\ [][CompareToPrevious]_vars

----------------------------------------------------------------------------
(* Properties *)

AllNeutral == [t \in TickerIdx |-> NeutralScore]

AllFail(d) == \A t \in TickerIdx : provider[<<d, t>>] \in FailingOutcomes

(* C1: when the fetch raises or returns an empty series for every one of   *)
(* the eight instruments, compute returns eight scores of exactly 50.0 and *)
(* a composite of exactly 50.0.                                            *)
C1_AllFetchesFail ==
    \A d \in active :
        (calls[d] > 0 /\ AllFail(d)) =>
            /\ last[d].values = AllNeutral
            /\ last[d].composite = Frac(NeutralScore, 1)

C1_Witness ==
    /\ calls[1] > 0
    /\ AllFail(1)
    /\ \E t \in TickerIdx : provider[<<1, t>>] = TransportError
    /\ \E t \in TickerIdx : provider[<<1, t>>] = TransportOk(EmptyFrame)
    /\ last[1].composite = Frac(NeutralScore, 1)

ScoredAlone ==
    [o \in PipeOutcomes |-> Calculate(IF o.err THEN EmptyFrame ELSE o.df)]

(* C2: compute returns exactly one score per configured instrument, in the *)
(* configured order; an instrument whose scoring raises gets 50.0 and      *)
(* every other instrument gets the score of its own series, for every      *)
(* subset of raising instruments.                                          *)
C2_FailureIsolation ==
    \A d \in active :
        calls[d] > 0 =>
            /\ Len(last[d].values) = NumTickers
            /\ \A t \in TickerIdx :
                  LET alone == ScoredAlone[provider[<<d, t>>]]
                  IN  /\ alone.raised => last[d].values[t] = NeutralScore
                      /\ ~alone.raised => last[d].values[t] = alone.score

C2_Witness ==
    /\ calls[1] > 0
    /\ provider[<<1, 1>>] = TransportOk(NoCloseFrame(12))
    /\ provider[<<1, 2>>] = TransportOk(LongFrame)
    /\ provider[<<1, 5>>] = TransportOk(NoCloseFrame(12))
    /\ last[1].values[1] = NeutralScore
    /\ last[1].values[2] # NeutralScore
    /\ Len(last[1].values) = NumTickers

LatestWeekdayBefore(day) ==
    CHOOSE x \in (day - 7)..(day - 1) :
        IsBusinessDay(x) /\ \A y \in (x + 1)..(day - 1) : ~IsBusinessDay(y)

(* C3: for every reference end date, weekend days included, the comparison *)
(* range ends on the latest Monday-to-Friday date strictly before it.      *)
C3_PreviousSessionEnd ==
    cmp.done => cmp.end = LatestWeekdayBefore(end_date)

VixScenario == [t \in TickerIdx |-> IF t = VIX THEN 9000 ELSE 5000]

(* C4: the composite is sum(w_i * s_i) / sum(w_i) when the total weight is *)
(* positive and the plain mean of the scores when it is zero; seven scores *)
(* of 50.0 and a VIX score of 90.0 give 59.2 under the configured weights. *)
C4_WeightedAverage ==
    agg_out.done =>
        LET wsum == SeqSum(cfg_weights)
            c    == agg_out.composite
        IN  /\ wsum > 0 => c.num * wsum = c.den * WeightedSum(ind_values, cfg_weights)
            /\ wsum = 0 => c.num * NumTickers = c.den * SeqSum(ind_values)
            /\ (ind_values = VixScenario /\ cfg_weights = WEIGHTS) => c = Frac(5920, 1)

C4_Witness ==
    /\ agg_out.done
    /\ ind_values = VixScenario
    /\ cfg_weights = WEIGHTS
    /\ agg_out.composite = Frac(5920, 1)

(* C5 as stated: for every non-negative weight vector and every score      *)
(* vector the composite lies between the minimum and the maximum score and *)
(* in [0, 100], also when scores are outside [0, 100].                     *)
C5_Original ==
    agg_out.done =>
        LET c == agg_out.composite
        IN  /\ SeqMin(ind_values) * c.den <= c.num
            /\ c.num <= SeqMax(ind_values) * c.den
            /\ 0 <= c.num /\ c.num <= 10000 * c.den

(* C5 amended: the composite always lies in [0, 100], and between the      *)
(* minimum and the maximum of the scores once these are clamped to         *)
(* [0, 100]; so it lies between the minimum and the maximum score whenever *)
(* all scores are within [0, 100].                                         *)
C5_ClampedBounds ==
    agg_out.done =>
        LET c == agg_out.composite
        IN  /\ 0 <= c.num /\ c.num <= 10000 * c.den
            /\ Clamp(SeqMin(ind_values)) * c.den <= c.num
            /\ c.num <= Clamp(SeqMax(ind_values)) * c.den

C5_Witness ==
    /\ agg_out.done
    /\ cfg_weights = WEIGHTS
    /\ ind_values = [t \in TickerIdx |-> 15000]
    /\ agg_out.composite = Frac(10000, 1)

(* C6: for every price series with fewer than 10 observations, the empty   *)
(* one included, calculate returns exactly 50.0 and does not raise.        *)
C6_ShortSeriesNeutral ==
    (out.done /\ df.rows < 10) =>
        /\ ~out.res.raised
        /\ out.res.score = 5000

C6_Witness ==
    /\ out.done
    /\ df.rows = 9
    /\ df.Close = CloseSeries(9, "calm_then_spike")
    /\ out.res.score = 5000

(* C7: two compute calls on the same DataManager return the same composite *)
(* and the same score vector, the second one reading the cached series the *)
(* first one has processed.                                                *)
C7_Idempotent ==
    \A d \in active : calls[d] >= 2 => last[d] = first[d]

C7_Witness ==
    /\ calls[1] = 2
    /\ provider[<<1, VIX>>] = TransportOk(LongFrame)
    /\ fetches[<<1, VIX>>] = 1
    /\ \E i \in 1..Len(cache) :
          cache[i].dm = 1 /\ cache[i].tk = VIX /\ "returns" \in cache[i].df.cols
    /\ last[1].values[VIX] # NeutralScore

Requested == {k \in Keys : fetches[k] > 0}

(* C8 as stated: after any sequence of calls on any number of instances    *)
(* the transport has been invoked at most once per (instance, instrument). *)
C8_Original == \A k \in Keys : fetches[k] <= 1

(* C8 amended: as long as at most 32 distinct (instance, instrument) pairs *)
(* have been requested from the cache shared by all instances, the         *)
(* transport has been invoked at most once per pair, failed fetches        *)
(* included.                                                               *)
C8_AtMostOnceWithinCapacity ==
    Cardinality(Requested) <= LruMaxSize => \A k \in Keys : fetches[k] <= 1

C8_Witness ==
    /\ Cardinality(Requested) = LruMaxSize
    /\ \E d \in DMs :
          /\ calls[d] >= 2
          /\ provider[<<d, 1>>].err
          /\ fetches[<<d, 1>>] = 1

(* C9: scoring leaves the series held in the cache unchanged, so a later   *)
(* get_history returns a series identical to the one fetched.              *)
C9_CacheUnchanged ==
    \A i \in 1..Len(cache) : cache[i].df = Fetch(cache[i].dm, cache[i].tk)

(* C10: n defined closes give max(0, n - 10) defined rolling volatilities; *)
(* with 10 to 19 observations calculate returns exactly 50.0, and a score  *)
(* other than 50.0 needs at least 20 observations.                         *)
C10_TwentyObservations ==
    /\ "Close" \in df.cols =>
          Len(DropNa(RollingStd(PctChange(df.Close)))) = Max2(0, df.rows - 10)
    /\ (out.done /\ "Close" \in df.cols /\ df.rows >= 10) =>
          Len(out.res.hist) = df.rows - 10
    /\ (out.done /\ "Close" \in df.cols /\ df.rows >= 10 /\ df.rows <= 19) =>
          (~out.res.raised /\ out.res.score = 5000)
    /\ (out.done /\ ~out.res.raised /\ out.res.score # 5000) => df.rows >= 20

C10_Witness ==
    /\ out.done
    /\ df.rows = 19
    /\ df.Close = CloseSeries(19, "calm_then_spike")
    /\ Len(out.res.hist) = 9
    /\ out.res.score = 5000

====
